---- MODULE Spec2Model ----
(***************************************************************************)
(* A model of torchlight/URLInfo.py: the URL classifier                    *)
(* (get_page_metadata), the media resolver (get_first_youtube_result,      *)
(* get_first_valid_entry, get_url_youtube_info), the audio format          *)
(* selection (get_direct_audio_url) and the playback-offset parser         *)
(* (get_url_real_time).                                                    *)
(*                                                                         *)
(* Python values are encoded as follows.  A str is a sequence of           *)
(* one-character strings where the code looks inside it (URLs of the       *)
(* offset parser, content types, titles) and a TLA+ string where the code  *)
(* only tests it for truth (ids, stream URLs, the proxy).  A dict is a     *)
(* record; a str-valued key that is missing holds Absent, a list-valued    *)
(* key holds Missing (<<>>) or Some(list).  None is a record of kind       *)
(* "none".  The extraction backend (yt_dlp) is external: each call         *)
(* answers with a nondeterministic choice among raising DownloadError,     *)
(* None and a dict.                                                        *)
(***************************************************************************)
EXTENDS Integers, Sequences, FiniteSets, TLC

VARIABLES
    op,         \* which entry point of the module this behaviour runs
    pc,         \* position inside the running entry point
    query,      \* get_first_youtube_result: argument query
    proxy,      \* get_first_youtube_result: argument proxy
    entries,    \* get_first_valid_entry: argument entries
    idx,        \* get_first_valid_entry: position of the for loop (1-based)
    calls,      \* history: the backend invocations made so far, in order
    examined,   \* history: the positions the for loop has examined, in order
    result,     \* what the entry point returned or raised
    formats,    \* get_direct_audio_url: info.get("formats", []) after line 159
    url,        \* get_url_real_time: argument url
    page        \* get_page_metadata: arguments and what the HTML parser finds

vars == <<op, pc, query, proxy, entries, idx, calls, examined, result,
          formats, url, page>>

(***************************************************************************)
(* Bounds of the model.                                                    *)
(***************************************************************************)
MaxEntries == 3     \* longest entries list a backend answer carries
MaxFormats == 2     \* longest formats list of a resolved record
MaxParts == 2       \* URL of the offset parser: number of marker+value parts
MaxVal == 2         \* URL of the offset parser: characters per value
MaxTitle == 2       \* characters of a document title

(***************************************************************************)
(* Python values.                                                          *)
(***************************************************************************)
Absent == "<absent>"
Missing == <<>>
Some(v) == <<v>>
Truthy(s) == s # Absent /\ s # ""

\* One entry of a formats list.
Formats == [vcodec : {Absent, "none", "h264"},
            acodec : {Absent, "none", "opus"},
            url : {Absent, "", "u1", "u2"}]

F1 == [vcodec |-> "none", acodec |-> "opus", url |-> "u1"]

Dict(id, videoId, fmts, ents, other) ==
    [kind |-> "dict", id |-> id, videoId |-> videoId, formats |-> fmts,
     entries |-> ents, other |-> other]

NoneVal ==
    [kind |-> "none", id |-> Absent, videoId |-> Absent, formats |-> Missing,
     entries |-> Missing, other |-> FALSE]

\* Python truth of a value that is None or a dict: None and {} are false.
IsTruthy(d) ==
    /\ d.kind = "dict"
    /\ \/ d.id # Absent
       \/ d.videoId # Absent
       \/ d.formats # Missing
       \/ d.entries # Missing
       \/ d.other

HasKey(d, key) ==
    CASE key = "formats" -> d.formats # Missing
      [] key = "entries" -> d.entries # Missing
      [] key = "id" -> d.id # Absent
      [] key = "videoId" -> d.videoId # Absent

\* The entries a search or playlist answer may carry.
EntryKinds ==
    { NoneVal,
      Dict(Absent, Absent, Missing, Missing, FALSE),
      Dict(Absent, Absent, Missing, Missing, TRUE),
      Dict("A", Absent, Missing, Missing, TRUE),
      Dict("B", Absent, Missing, Missing, TRUE),
      Dict("", "V", Missing, Missing, TRUE),
      Dict(Absent, Absent, Some(<<F1>>), Missing, TRUE),
      Dict("A", Absent, Some(<<F1>>), Missing, TRUE) }

\* The lists of at most n members of S.
SeqsUpTo(S, n) == UNION { [1..k -> S] : k \in 0..n }

\* What one call of the backend's extract_info may do.
Raised == [kind |-> "raise", id |-> Absent, videoId |-> Absent,
           formats |-> Missing, entries |-> Missing, other |-> FALSE]

ItemAnswers ==
    { Raised,
      NoneVal,
      Dict("A", Absent, Missing, Missing, TRUE),
      Dict("A", Absent, Some(<<>>), Missing, TRUE),
      Dict("A", Absent, Some(<<F1>>), Missing, TRUE),
      Dict("A", Absent, Some(<<F1>>), Some(<<>>), TRUE) }

\* A search or playlist answer: a dict whose entries list is es.
Collection(es) == Dict(Absent, Absent, Missing, Some(es), TRUE)

EntryLists == SeqsUpTo(EntryKinds, MaxEntries)

(***************************************************************************)
(* str.strip() and str.startswith() on the query, a sequence of tokens:    *)
(* " " is white space, "http://" and "https://" are the two schemes.       *)
(***************************************************************************)
RECURSIVE LStrip(_, _)
LStrip(s, ws) == IF s # <<>> /\ Head(s) \in ws THEN LStrip(Tail(s), ws) ELSE s

RECURSIVE RStrip(_, _)
RStrip(s, ws) ==
    IF s # <<>> /\ s[Len(s)] \in ws THEN RStrip(SubSeq(s, 1, Len(s) - 1), ws) ELSE s

Strip(s) == RStrip(LStrip(s, {" "}), {" "})

Queries ==
    { <<"https://", "x">>, <<" ", "http://", "x", " ">>, <<"x", " ", "y">> }

Proxies == { "", "p1" }

FallbackTarget == <<"https://", "www.youtube.com/watch?v=dQw4w9WgXcQ">>

WatchUrl(video_id) == <<"https://", "www.youtube.com/watch?v=", video_id>>

\* ydl_opts of get_url_youtube_info: the proxy key is set only for a truthy proxy.
YdlOpts(p) ==
    [format |-> "bestaudio/best", extract_flat |-> FALSE,
     proxy |-> IF p # "" THEN p ELSE Absent]

\* The invocation get_url_youtube_info(u, p) makes: extract_info(u.strip()) under ydl_opts.
get_url_youtube_info(u, p) == [target |-> Strip(u), opts |-> YdlOpts(p)]

Pending == [kind |-> "pending", info |-> NoneVal, err |-> ""]
Returned(info) == [kind |-> "info", info |-> info, err |-> ""]
Raises(err) == [kind |-> "error", info |-> NoneVal, err |-> err]

NoCompatibleVideo == "No compatible YouTube video found in results."

(***************************************************************************)
(* The media resolver.                                                     *)
(***************************************************************************)
Init ==
    /\ op = "resolve"
    /\ pc = "start"
    /\ query \in Queries
    /\ proxy \in Proxies
    /\ entries = <<>>
    /\ idx = 0
    /\ calls = <<>>
    /\ examined = <<>>
    /\ result = Pending
    /\ formats = <<>>
    /\ url = <<>>
    /\ page = <<>>

SearchTarget(q) ==
    LET query_clean == Strip(q)
    IN IF query_clean # <<>> /\ Head(query_clean) \in {"http://", "https://"}
       THEN query_clean
       ELSE FallbackTarget

\* A for loop that passes over the entry after the current one.
NextIndexSkipping(i) == i + 2

\* The loop variable after one iteration of the for loop.
NextIndex(i) == i + 1

\* video_id = entry.get("id") or entry.get("videoId")
VideoId(entry) == IF Truthy(entry.id) THEN entry.id ELSE entry.videoId

\* get_first_youtube_result from the backend's answer info on (lines 183-186).
Resolve(info) ==
    /\ calls' = Append(calls, get_url_youtube_info(SearchTarget(query), proxy))
    /\ IF info.kind = "raise"
       THEN /\ result' = Raises("DownloadError")
            /\ pc' = "done"
            /\ UNCHANGED <<entries, idx>>
       ELSE IF info.kind = "none"
       THEN /\ result' = Raises("TypeError")
            /\ pc' = "done"
            /\ UNCHANGED <<entries, idx>>
       ELSE IF HasKey(info, "entries")
       THEN /\ entries' = info.entries[1]
            /\ idx' = 1
            /\ pc' = "walk"
            /\ UNCHANGED result
       ELSE /\ result' = Returned(info)
            /\ pc' = "done"
            /\ UNCHANGED <<entries, idx>>

\* get_first_youtube_result up to the end of its own backend call, which
\* answers as for a single item or with a collection.
get_first_youtube_result ==
    /\ pc = "start"
    /\ \/ \E info \in ItemAnswers : Resolve(info)
       \/ \E es \in EntryLists : Resolve(Collection(es))
    /\ UNCHANGED <<op, query, proxy, examined, formats, url, page>>

\* One iteration of the for loop on an entry that makes no backend call.
WalkSkip ==
    /\ pc = "walk"
    /\ idx <= Len(entries)
    /\ LET entry == entries[idx]
       IN \/ ~IsTruthy(entry)
          \/ ~Truthy(VideoId(entry))
    /\ examined' = Append(examined, idx)
    /\ idx' = NextIndex(idx)
    /\ UNCHANGED <<op, pc, query, proxy, entries, calls, result, formats, url, page>>

\* One iteration of the for loop on an entry with an id: the backend is called,
\* with get_url_youtube_info's default proxy "" (line 113 passes none), and an
\* exception of the backend leaves the loop and the function (no try).
WalkExtract ==
    /\ pc = "walk"
    /\ idx <= Len(entries)
    /\ IsTruthy(entries[idx])
    /\ Truthy(VideoId(entries[idx]))
    /\ examined' = Append(examined, idx)
    /\ calls' = Append(calls,
                       get_url_youtube_info(WatchUrl(VideoId(entries[idx])), ""))
    /\ \E info \in ItemAnswers :
         IF info.kind = "raise"
         THEN /\ result' = Raises("DownloadError")
              /\ pc' = "done"
              /\ UNCHANGED idx
         ELSE IF IsTruthy(info) /\ HasKey(info, "formats")
         THEN /\ result' = Returned(info)
              /\ pc' = "done"
              /\ UNCHANGED idx
         ELSE /\ idx' = NextIndex(idx)
              /\ UNCHANGED <<pc, result>>
    /\ UNCHANGED <<op, query, proxy, entries, formats, url, page>>

\* The for loop is over: raise Exception("No compatible YouTube video ...").
WalkExhausted ==
    /\ pc = "walk"
    /\ idx > Len(entries)
    /\ result' = Raises(NoCompatibleVideo)
    /\ pc' = "done"
    /\ UNCHANGED <<op, query, proxy, entries, idx, calls, examined, formats, url, page>>

get_first_valid_entry == WalkSkip \/ WalkExtract \/ WalkExhausted

Next == get_first_youtube_result \/ get_first_valid_entry

Spec == Init /\ [][Next]_vars

(***************************************************************************)
(* Properties of the media resolver.                                       *)
(***************************************************************************)
InWalk == op = "resolve" /\ idx >= 1
WalkOver == InWalk /\ pc = "done"

\* C1: a recoverable extraction error of one candidate does not abort the
\* candidate walk: the walk goes on to the next entry, so it never ends by
\* raising the backend's error.
C1_WalkSurvivesCandidateFailure ==
    WalkOver => ~(result.kind = "error" /\ result.err = "DownloadError")

\* C2: every record get_first_youtube_result returns, on the direct path and
\* on the collection path, is no collection and has a non-empty formats list.
C2_ReturnedRecordHasFormats ==
    (op = "resolve" /\ pc = "done" /\ result.kind = "info") =>
        /\ ~HasKey(result.info, "entries")
        /\ HasKey(result.info, "formats")
        /\ result.info.formats[1] # <<>>

\* The first entry of es that is neither None nor an empty dict (0: none).
FirstNonNull(es) ==
    LET live == { j \in 1..Len(es) : es[j].kind = "dict" /\ es[j] # Dict(Absent, Absent, Missing, Missing, FALSE) }
    IN IF live = {} THEN 0 ELSE CHOOSE j \in live : \A k \in live : j <= k

\* C3: when the first non-null entry carries a formats list, the walk returns
\* that entry itself and calls the backend zero times (the one call of the
\* log is get_first_youtube_result's own), with or without an id.
C3_CheapPath ==
    (WalkOver /\ FirstNonNull(entries) # 0
        /\ entries[FirstNonNull(entries)].formats # Missing) =>
        /\ result = Returned(entries[FirstNonNull(entries)])
        /\ Len(calls) = 1

\* C4: every backend invocation of one resolution, the initial one and each
\* per-candidate one, is configured with the proxy the caller passed.
C4_ProxyOnEveryCall ==
    op = "resolve" =>
        \A k \in 1..Len(calls) :
            calls[k].opts.proxy = (IF proxy # "" THEN proxy ELSE Absent)

\* The targets the walk must have called the backend with after examining the
\* first n entries of es: one per entry that is a dict with a non-empty id or
\* videoId, in list order.
RECURSIVE ExpectedTargets(_, _)
ExpectedTargets(es, n) ==
    IF n = 0 THEN <<>>
    ELSE LET e == es[n]
             vid == IF e.id \notin {Absent, ""} THEN e.id ELSE e.videoId
         IN IF e.kind = "dict" /\ vid \notin {Absent, ""}
            THEN Append(ExpectedTargets(es, n - 1),
                        <<"https://", "www.youtube.com/watch?v=", vid>>)
            ELSE ExpectedTargets(es, n - 1)

\* C10: the walk examines the entries in list order, each at most once; the
\* per-candidate backend calls are exactly those of the examined entries that
\* are dicts with an id or videoId, in that order; a usable record ends the
\* walk at once (nothing is examined or called after it); and a walk that
\* ends with the "no compatible item" error has examined the whole list.
C10_WalkOrder ==
    InWalk =>
        /\ \A k \in 1..Len(examined) : examined[k] \in 1..Len(entries)
        /\ \A k \in 1..(Len(examined) - 1) : examined[k] < examined[k + 1]
        /\ [k \in 1..(Len(calls) - 1) |-> calls[k + 1].target]
              = ExpectedTargets(entries, Len(examined))
        /\ result.kind = "info" =>
              /\ pc = "done"
              /\ ~ENABLED Next
              /\ result.info.formats # Missing
              /\ examined # <<>>
              /\ calls[Len(calls)].target
                    = ExpectedTargets(entries, examined[Len(examined)])[Len(calls) - 1]
        /\ pc = "done" =>
              \/ result.kind = "info"
              \/ result.err = "DownloadError"
              \/ /\ result.err = NoCompatibleVideo
                 /\ examined = [k \in 1..Len(entries) |-> k]

\* A walk over three entries that skipped a null entry, found the second
\* candidate's record unusable and returned the third candidate's record.
C10_Witness ==
    /\ WalkOver
    /\ result.kind = "info"
    /\ Len(entries) = 3
    /\ entries[1] = NoneVal
    /\ Len(calls) = 3
    /\ examined = <<1, 2, 3>>

(***************************************************************************)
(* The audio format selection, get_direct_audio_url.                       *)
(***************************************************************************)
NoCompatibleAudio == "No compatible audio format found"

Url(u) == [kind |-> "url", url |-> u, err |-> ""]
Fails(err) == [kind |-> "error", url |-> Absent, err |-> err]

FormatLists == SeqsUpTo(Formats, MaxFormats)

\* A single item whose formats list is fs.
Item(fs) == Dict("A", Absent, Some(fs), Missing, TRUE)

\* The backend's other answers to get_direct_audio_url: an exception, None, an
\* item without a formats key, and a search or playlist whose entries list is
\* empty or starts with None.
OtherAudioAnswers ==
    { Raised,
      NoneVal,
      Dict("A", Absent, Missing, Missing, TRUE),
      Dict(Absent, Absent, Some(<<F1>>), Some(<<>>), TRUE),
      Collection(<<NoneVal>>) }

\* A first loop that takes any entry without a video stream that has a URL.
IsAudioOnlyAnyAcodec(fmt) == fmt.vcodec = "none" /\ Truthy(fmt.url)

\* The test of the first loop (line 163).
IsAudioOnly(fmt) ==
    /\ fmt.vcodec = "none"
    /\ fmt.acodec \notin {Absent, "none"}
    /\ Truthy(fmt.url)

\* A fallback loop that does not look at the URL.
HasAudioAnyUrl(fmt) == fmt.acodec \notin {Absent, "none"}

\* The test of the fallback loop (line 168).
HasAudio(fmt) ==
    /\ fmt.acodec \notin {Absent, "none"}
    /\ Truthy(fmt.url)

\* The smallest member of a non-empty set of positions.
Lowest(hits) == CHOOSE k \in hits : \A j \in hits : k <= j

\* info.get("formats", [])
FormatsOf(info) == IF HasKey(info, "formats") THEN info.formats[1] ELSE <<>>

\* Lines 161-171: the two loops over the formats list and the final raise.
SelectAudio(fs) ==
    LET audioOnly == { k \in 1..Len(fs) : IsAudioOnly(fs[k]) }
        withAudio == { k \in 1..Len(fs) : HasAudio(fs[k]) }
    IN IF audioOnly # {} THEN Url(fs[Lowest(audioOnly)].url)
       ELSE IF withAudio # {} THEN Url(fs[Lowest(withAudio)].url)
       ELSE Fails(NoCompatibleAudio)

InitAudio ==
    /\ op = "audio"
    /\ pc = "start"
    /\ query \in Queries
    /\ proxy = ""
    /\ entries = <<>>
    /\ idx = 0
    /\ calls = <<>>
    /\ examined = <<>>
    /\ result = Fails("")
    /\ formats = <<>>
    /\ url = <<>>
    /\ page = <<>>

\* get_direct_audio_url from the backend's answer on (lines 157-171).
Select(answer) ==
    /\ calls' = Append(calls, [target |-> Strip(query), opts |-> YdlOpts("")])
    /\ IF answer.kind = "raise"
       THEN /\ result' = Fails("DownloadError")
            /\ pc' = "failed"
            /\ UNCHANGED formats
       ELSE IF answer.kind = "none"
       THEN /\ result' = Fails("TypeError")
            /\ pc' = "failed"
            /\ UNCHANGED formats
       ELSE LET info == IF HasKey(answer, "entries") /\ answer.entries[1] # <<>>
                        THEN answer.entries[1][1]
                        ELSE answer
            IN IF info.kind = "none"
               THEN /\ result' = Fails("AttributeError")
                    /\ pc' = "failed"
                    /\ UNCHANGED formats
               ELSE /\ formats' = FormatsOf(info)
                    /\ result' = SelectAudio(FormatsOf(info))
                    /\ pc' = "done"

\* The backend answers with an item, with a collection that starts with an
\* item, or otherwise.
get_direct_audio_url ==
    /\ pc = "start"
    /\ op = "audio"
    /\ \/ \E fs \in FormatLists : Select(Item(fs))
       \/ \E fs \in FormatLists : Select(Collection(<<Item(fs)>>))
       \/ \E answer \in OtherAudioAnswers : Select(answer)
    /\ UNCHANGED <<op, query, proxy, entries, idx, examined, url, page>>

NextAudio == get_direct_audio_url

SpecAudio == InitAudio /\ [][NextAudio]_vars

(***************************************************************************)
(* Properties of the audio format selection.                               *)
(***************************************************************************)
Selected == op = "audio" /\ pc = "done"

\* The first position of the formats list whose entry has the "none" video
\* codec and a URL that is present (0: none).
FirstNoVideo ==
    LET hits == { k \in 1..Len(formats) :
                    formats[k].vcodec = "none" /\ formats[k].url \notin {Absent, ""} }
    IN IF hits = {} THEN 0 ELSE CHOOSE k \in hits : \A j \in hits : k <= j

\* The same among the entries whose audio codec is present and not "none".
FirstNoVideoWithAudio ==
    LET hits == { k \in 1..Len(formats) :
                    /\ formats[k].vcodec = "none"
                    /\ formats[k].acodec \notin {Absent, "none"}
                    /\ formats[k].url \notin {Absent, ""} }
    IN IF hits = {} THEN 0 ELSE CHOOSE k \in hits : \A j \in hits : k <= j

\* C7 as stated: whenever some entry has the "none" video codec and a URL,
\* the URL of the first such entry is returned, whatever its audio codec.
C7_FirstNoVideoEntryWins ==
    (Selected /\ FirstNoVideo # 0) => result = Url(formats[FirstNoVideo].url)

\* C7 as amended: whenever some entry has the "none" video codec, an audio
\* codec that is present and not "none", and a URL, the URL of the first such
\* entry is returned, whatever muxed entries stand before or after it.
C7_FirstAudioOnlyEntryWins ==
    (Selected /\ FirstNoVideoWithAudio # 0) =>
        result = Url(formats[FirstNoVideoWithAudio].url)

\* A muxed entry with a URL stands before the audio-only entry that wins.
C7_Witness ==
    /\ Selected
    /\ FirstNoVideoWithAudio = 2
    /\ formats[1].vcodec = "h264"
    /\ formats[1].acodec = "opus"
    /\ formats[1].url = "u1"
    /\ formats[2].url = "u2"
    /\ result = Url("u2")

\* C8: the selection returns a non-empty URL of some entry of the formats
\* list or fails with the "no compatible audio format" error, and it fails
\* with that error when the list is empty or missing or no entry has a URL.
C8_UrlOrError ==
    Selected =>
        /\ \/ /\ result.kind = "url"
              /\ result.url \notin {Absent, ""}
              /\ \E k \in 1..Len(formats) : formats[k].url = result.url
           \/ result = Fails(NoCompatibleAudio)
        /\ (\A k \in 1..Len(formats) : formats[k].url \in {Absent, ""}) =>
              result = Fails(NoCompatibleAudio)

\* The selection failed on a non-empty list whose entries carry audio but no
\* usable URL.
C8_Witness ==
    /\ Selected
    /\ Len(formats) = 2
    /\ formats[1].acodec = "opus"
    /\ formats[1].url = ""
    /\ formats[2].acodec = "opus"
    /\ formats[2].url = Absent
    /\ result = Fails(NoCompatibleAudio)

(***************************************************************************)
(* The playback-offset parser, get_url_real_time.  A URL is a sequence of  *)
(* characters.                                                             *)
(***************************************************************************)
Digits == <<"0", "1", "2", "3", "4", "5", "6", "7", "8", "9">>
IsDigit(c) == \E d \in 1..10 : Digits[d] = c
DigitValue(c) == (CHOOSE d \in 1..10 : Digits[d] = c) - 1

\* The position of the first occurrence of sep in s (0: sep not in s).
Find(s, sep) ==
    LET at == { k \in 1..(Len(s) - Len(sep) + 1) : SubSeq(s, k, k + Len(sep) - 1) = sep }
    IN IF at = {} THEN 0 ELSE CHOOSE k \in at : \A j \in at : k <= j

\* s.split(sep)[0]
SplitHead(s, sep) == IF Find(s, sep) = 0 THEN s ELSE SubSeq(s, 1, Find(s, sep) - 1)

\* s.split(sep)[1], for sep in s
SplitSecond(s, sep) ==
    SplitHead(SubSeq(s, Find(s, sep) + Len(sep), Len(s)), sep)

\* s.replace(c, "")
Remove(s, c) == SelectSeq(s, LAMBDA x : x # c)

RECURSIVE Decimal(_)
Decimal(s) ==
    IF s = <<>> THEN 0 ELSE 10 * Decimal(SubSeq(s, 1, Len(s) - 1)) + DigitValue(s[Len(s)])

\* int(s) accepts an optional sign and then one or more digits (the white
\* space and the underscores it also accepts are not in UrlChars).
IntBody(s) == IF s # <<>> /\ Head(s) \in {"-", "+"} THEN Tail(s) ELSE s
IntParses(s) == IntBody(s) # <<>> /\ \A k \in 1..Len(IntBody(s)) : IsDigit(IntBody(s)[k])
IntValue(s) ==
    IF s # <<>> /\ Head(s) = "-" THEN 0 - Decimal(IntBody(s)) ELSE Decimal(IntBody(s))

Markers == << <<"&", "t", "=">>, <<"?", "t", "=">>, <<"#", "t", "=">> >>

\* Line 193: the text after the marker, up to the next '&', '?' or '#'.
TimeStr(u, sep) == SplitHead(SplitHead(SplitHead(SplitSecond(u, sep), <<"&">>), <<"?">>), <<"#">>)

\* The for loop of get_url_real_time from marker number m on.
RECURSIVE RealTimeFrom(_, _)
RealTimeFrom(u, m) ==
    IF m > Len(Markers) THEN 0
    ELSE IF Find(u, Markers[m]) # 0 /\ IntParses(Remove(TimeStr(u, Markers[m]), "s"))
    THEN IntValue(Remove(TimeStr(u, Markers[m]), "s"))
    ELSE RealTimeFrom(u, m + 1)

ValueChars == {"1", "2", "s", "-", "a"}

\* One part of a URL: a marker or a plain parameter separator, then a value.
UrlParts ==
    { sep \o v : sep \in { Markers[1], Markers[2], Markers[3], <<"&">> },
                 v \in SeqsUpTo(ValueChars, MaxVal) }

RECURSIVE Concat(_)
Concat(ss) == IF ss = <<>> THEN <<>> ELSE Head(ss) \o Concat(Tail(ss))

Urls == { <<"x">> \o Concat(ps) : ps \in SeqsUpTo(UrlParts, MaxParts) }

Seconds(n) == [kind |-> "int", value |-> n]

InitOffset ==
    /\ op = "offset"
    /\ pc = "start"
    /\ query = <<>>
    /\ proxy = ""
    /\ entries = <<>>
    /\ idx = 0
    /\ calls = <<>>
    /\ examined = <<>>
    /\ result = Seconds(0)
    /\ formats = <<>>
    /\ url \in Urls
    /\ page = <<>>

get_url_real_time ==
    /\ op = "offset"
    /\ pc = "start"
    /\ result' = Seconds(RealTimeFrom(url, 1))
    /\ pc' = "done"
    /\ UNCHANGED <<op, query, proxy, entries, idx, calls, examined, formats, url, page>>

NextOffset == get_url_real_time

SpecOffset == InitOffset /\ [][NextOffset]_vars

(***************************************************************************)
(* Properties of the playback-offset parser.                               *)
(***************************************************************************)
\* C5: the parser returns an integer that is never negative, also when the
\* value after the marker carries a sign.
C5_OffsetNonNegative ==
    (op = "offset" /\ pc = "done") => (result.kind = "int" /\ result.value >= 0)

\* The text after the first occurrence of sep in u, cut at the first
\* following '&', '?' or '#'.
ValueAfter(u, sep) ==
    LET first == CHOOSE k \in 1..(Len(u) - 2) :
                    /\ SubSeq(u, k, k + 2) = sep
                    /\ \A j \in 1..(k - 1) : SubSeq(u, j, j + 2) # sep
        rest == SubSeq(u, first + 3, Len(u))
        stops == { k \in 1..Len(rest) : rest[k] \in {"&", "?", "#"} }
    IN IF stops = {} THEN rest
       ELSE SubSeq(rest, 1, (CHOOSE k \in stops : \A j \in stops : k <= j) - 1)

\* A trailing "s", and only that, stripped.
WithoutUnit(v) == IF v # <<>> /\ v[Len(v)] = "s" THEN SubSeq(v, 1, Len(v) - 1) ELSE v

IsUnsigned(v) == v # <<>> /\ \A k \in 1..Len(v) : v[k] \in {"0", "1", "2", "3", "4", "5", "6", "7", "8", "9"}

Present(u, sep) == \E k \in 1..(Len(u) - 2) : SubSeq(u, k, k + 2) = sep

\* The specified algorithm from marker number m on.
RECURSIVE SpecifiedOffsetFrom(_, _)
SpecifiedOffsetFrom(u, m) ==
    IF m > 3 THEN 0
    ELSE LET sep == << <<"&", "t", "=">>, <<"?", "t", "=">>, <<"#", "t", "=">> >>[m]
         IN IF Present(u, sep) /\ IsUnsigned(WithoutUnit(ValueAfter(u, sep)))
            THEN Decimal(WithoutUnit(ValueAfter(u, sep)))
            ELSE SpecifiedOffsetFrom(u, m + 1)

\* C9: the parser returns what the specified algorithm returns: the markers in
\* priority order, the value cut at '&', '?' or '#', only a trailing "s"
\* stripped, an unsigned integer parsed, the next marker on a failed parse and
\* 0 at the end.
C9_OffsetAsSpecified ==
    (op = "offset" /\ pc = "done") => result = Seconds(SpecifiedOffsetFrom(url, 1))

(***************************************************************************)
(* The URL classifier, get_page_metadata.  The content type and the title  *)
(* are sequences of characters; a descriptor is the sequence of its tag    *)
(* and the characters that follow it, the empty string the empty sequence. *)
(* The HTML parser, the image decoder and libmagic are external: the page  *)
(* carries what they find in the body.                                     *)
(***************************************************************************)
StartsWith(s, prefix) == Len(s) >= Len(prefix) /\ SubSeq(s, 1, Len(prefix)) = prefix

Text == <<"t", "e", "x", "t">>
TextPlain == Text \o <<"/", "p", "l", "a", "i", "n">>
Image == <<"i", "m", "a", "g", "e">>

ContentTypes ==
    { <<>>,
      Text,
      Text \o <<"/", "h", "t", "m", "l">>,
      Text \o <<"/", "p", "l", "a">>,
      TextPlain,
      TextPlain \o <<";", "u", "8">>,
      <<"T", "e", "x", "t">>,
      Image \o <<"/", "p", "n", "g">>,
      <<"a", "p", "p">> }

\* soup.title: None, or an element whose .string is None (an element with no
\* text) or its text.
NoTitle == [present |-> FALSE, hasString |-> FALSE, string |-> <<>>]
EmptyTitle == [present |-> TRUE, hasString |-> FALSE, string |-> <<>>]
TitleOf(text) == [present |-> TRUE, hasString |-> TRUE, string |-> text]

Titles ==
    { NoTitle, EmptyTitle }
        \cup { TitleOf(text) : text \in SeqsUpTo({" ", "T"}, MaxTitle) \ { <<>> } }

Pages ==
    [content : {"", "bytes"},
     content_type : ContentTypes,
     title : Titles,
     image_decodes : BOOLEAN]

Descriptor(text) == [kind |-> "str", text |-> text, err |-> ""]
Throws(err) == [kind |-> "error", text |-> <<>>, err |-> err]

\* get_page_metadata on the page p.
PageMetadata(p) ==
    IF p.content = "" THEN Descriptor(<<>>)
    ELSE IF StartsWith(p.content_type, Text) /\ ~StartsWith(p.content_type, TextPlain)
    THEN IF p.title.present
         THEN IF p.title.hasString
              THEN Descriptor(<<"[URL] ">> \o Strip(p.title.string))
              ELSE Throws("AttributeError")
         ELSE Descriptor(<<>>)
    ELSE IF StartsWith(p.content_type, Image)
    THEN IF p.image_decodes
         THEN Descriptor(<<"[IMAGE] ", "format | size | Size: content_length">>)
         ELSE Descriptor(<<"[IMAGE] ", "Unknown Format">>)
    ELSE Descriptor(<<"[FILE] ", "filetype">>)

InitClassify ==
    /\ op = "classify"
    /\ pc = "start"
    /\ query = <<>>
    /\ proxy = ""
    /\ entries = <<>>
    /\ idx = 0
    /\ calls = <<>>
    /\ examined = <<>>
    /\ result = Descriptor(<<>>)
    /\ formats = <<>>
    /\ url = <<>>
    /\ page \in Pages

get_page_metadata ==
    /\ op = "classify"
    /\ pc = "start"
    /\ result' = PageMetadata(page)
    /\ pc' = "done"
    /\ UNCHANGED <<op, query, proxy, entries, idx, calls, examined, formats, url, page>>

NextClassify == get_page_metadata

SpecClassify == InitClassify /\ [][NextClassify]_vars

(***************************************************************************)
(* Properties of the URL classifier.                                       *)
(***************************************************************************)
\* The title's text without its leading and trailing blanks (no text: empty).
Trimmed(title) ==
    LET blanks == { k \in 1..Len(title.string) : title.string[k] # " " }
    IN IF ~title.present \/ ~title.hasString \/ blanks = {} THEN <<>>
       ELSE SubSeq(title.string,
                   CHOOSE k \in blanks : \A j \in blanks : k <= j,
                   CHOOSE k \in blanks : \A j \in blanks : k >= j)

\* C6: for a non-empty body whose content type starts with "text" but not
\* with "text/plain", the descriptor is "[URL] " and the trimmed title when
\* the title is non-empty after trimming and the empty string otherwise; the
\* classifier never raises and never returns the bare "[URL] ".
C6_TitleOrEmpty ==
    (/\ op = "classify"
     /\ pc = "done"
     /\ page.content # ""
     /\ Len(page.content_type) >= 4
     /\ SubSeq(page.content_type, 1, 4) = <<"t", "e", "x", "t">>
     /\ ~(/\ Len(page.content_type) >= 10
          /\ SubSeq(page.content_type, 5, 10) = <<"/", "p", "l", "a", "i", "n">>)) =>
        result = IF Trimmed(page.title) # <<>>
                 THEN [kind |-> "str", text |-> <<"[URL] ">> \o Trimmed(page.title), err |-> ""]
                 ELSE [kind |-> "str", text |-> <<>>, err |-> ""]

====
